---- MODULE Spec2Model ----
(***************************************************************************)
(* Model of files/freeipa_idpsync.py: one reconciliation pass that makes   *)
(* the users and groups of a FreeIPA server follow an LDAP directory.      *)
(*                                                                         *)
(*   Spec       the run of sync() after both snapshots are loaded: the six *)
(*              lists are computed from the snapshots and applied call by  *)
(*              call to the target, each call either performed or raising. *)
(*   SpecLoad   the two loaders, fetch_ldap and fetch_freeipa, over small   *)
(*              directories and servers with ignore lists.                 *)
(*   SpecMatch  modified_users over users whose attributes agree or differ *)
(*              one by one.                                                *)
(***************************************************************************)
EXTENDS Integers, Sequences, FiniteSets, TLC

\* ------------------------------------------------------------------ bounds
\* The directory and the server together hold at most MaxEntries user and
\* group entries.
MaxEntries == 5

Usernames == {"alice", "bob"}
GroupNames == {"eng", "ops"}

\* Python's None, and an attribute a row does not carry.
None == "<None>"

VARIABLES
    idp_users,      \* desired snapshot: username -> User        (line 68)
    idp_groups,     \* desired snapshot: group name -> Group     (line 68)
    freeipa_users,  \* current snapshot: username -> User        (line 69)
    freeipa_groups, \* current snapshot: group name -> Group     (line 69)
    dry_run,        \* the --dry-run flag
    tgt_users,      \* the FreeIPA server: uid -> user entry
    tgt_groups,     \* the FreeIPA server: cn -> group entry
    pc,             \* position of sync(): "start", a phase, "done", "failed"
    todo,           \* keys of the current phase's list not yet handled
    cur,            \* group whose handler is inside its member loops, or None
    madd,           \* members the running handler still has to add
    mrem,           \* members the running handler still has to remove
    calls,          \* every client.* mutation issued so far, in order
    out,            \* every action line printed so far, in order
    directory,      \* the LDAP server: the entries under userdn and groupdn
    config          \* the ignore lists of the configuration file

vars == <<idp_users, idp_groups, freeipa_users, freeipa_groups, dry_run,
          tgt_users, tgt_groups, pc, todo, cur, madd, mrem, calls, out,
          directory, config>>

snapshots == <<idp_users, idp_groups, freeipa_users, freeipa_groups, dry_run,
               directory, config>>

\* ------------------------------------------------------------ dictionaries
Put(d, k, v) == [x \in DOMAIN d \cup {k} |-> IF x = k THEN v ELSE d[x]]
Del(d, k) == [x \in DOMAIN d \ {k} |-> d[x]]
Values(d) == {d[k] : k \in DOMAIN d}

\* ------------------------------------------------------------- data classes
User(username, name, fname, lname, shell, uid, active, email, auth_type, idp_name, idp_username) ==
    [username |-> username, name |-> name, fname |-> fname, lname |-> lname,
     shell |-> shell, uid |-> uid, active |-> active, email |-> email,
     auth_type |-> auth_type, idp_name |-> idp_name,
     idp_username |-> idp_username]

\* members is a dict with None values: only its key set carries information,
\* and dict equality is equality of the key sets.
Group(name, description, members) ==
    [name |-> name, description |-> description, members |-> members]

\* --------------------------------------------------------- string fetching
\* fetch_string: the attribute `name` of a row as a string, None when the
\* name is not configured, the row lacks it or its value is empty.
\* Python's `not val` for an attribute value: None or an empty string.
Falsy(val) == val = None \/ val = ""

fetch_string(values, name) ==
    IF name = None \/ name = "" THEN None
    ELSE IF name \notin DOMAIN values THEN None
    ELSE IF Falsy(values[name]) THEN None
    ELSE values[name]

\* fetch_required_string raises where fetch_string returns None.
Missing(values, name) == name = "" \/ fetch_string(values, name) = None
fetch_required_string(values, name) == fetch_string(values, name)

\* ------------------------------------------------------- the FreeIPA server
\* One entry of user_find()["result"]; an attribute the entry lacks is None.
UserEntry(uid, givenname, sn, cn, mail, uidnumber, loginshell, nsaccountlock, ipauserauthtype, ipaidpconfiglink, ipaidpsub) ==
    [uid |-> uid, givenname |-> givenname, sn |-> sn, cn |-> cn, gecos |-> cn,
     mail |-> mail, uidnumber |-> uidnumber, gidnumber |-> uidnumber,
     loginshell |-> loginshell, nsaccountlock |-> nsaccountlock,
     ipauserauthtype |-> ipauserauthtype,
     ipaidpconfiglink |-> ipaidpconfiglink, ipaidpsub |-> ipaidpsub]

RECURSIVE SetToSeq(_)
SetToSeq(S) ==
    IF S = {} THEN <<>>
    ELSE LET x == CHOOSE y \in S : TRUE IN <<x>> \o SetToSeq(S \ {x})

\* client.user_find() and client.group_find(): the entries of the server as
\* a list.  A member_user that is absent is an empty list here: fetch_freeipa
\* treats both alike.
user_find(server_users) == SetToSeq(Values(server_users))
group_find(server_groups) ==
    SetToSeq({[cn |-> e.cn, description |-> e.description,
               member_user |-> SetToSeq(e.member_user)]
              : e \in Values(server_groups)})

\* ------------------------------------------------------------ fetch_freeipa
Raised == [raised |-> TRUE, users |-> <<>>, groups |-> <<>>]

freeipa_user_of(row) ==
    LET fname == fetch_string(row, "givenname")
        auth_type == fetch_string(row, "ipauserauthtype")
        idp_name == fetch_string(row, "ipaidpconfiglink")
        idp_username == fetch_string(row, "ipaidpsub")
    IN User(fetch_required_string(row, "uid"),
            fetch_required_string(row, "cn"),
            IF fname = None THEN "" ELSE fname,
            fetch_required_string(row, "sn"),
            fetch_string(row, "loginshell"),
            fetch_required_string(row, "uidnumber"),
            IF row["nsaccountlock"] THEN FALSE ELSE TRUE,
            fetch_string(row, "mail"),
            IF auth_type = None THEN "password" ELSE auth_type,
            IF idp_name = None THEN "" ELSE idp_name,
            IF idp_username = None THEN "" ELSE idp_username)

RECURSIVE freeipa_users_loop(_, _, _)
freeipa_users_loop(rows, ignore_users, users) ==
    IF rows = <<>> THEN [raised |-> FALSE, users |-> users]
    ELSE LET row == Head(rows) IN
         IF \E a \in {"uid", "sn", "cn", "uidnumber"} : Missing(row, a)
         THEN [raised |-> TRUE, users |-> users]
         ELSE LET user == freeipa_user_of(row) IN
              IF user.username \in ignore_users
              THEN freeipa_users_loop(Tail(rows), ignore_users, users)
              ELSE freeipa_users_loop(Tail(rows), ignore_users,
                                      Put(users, user.username, user))

RECURSIVE freeipa_members_loop(_, _, _)
freeipa_members_loop(member_user, ignore_users, members) ==
    IF member_user = <<>> THEN members
    ELSE freeipa_members_loop(
             Tail(member_user), ignore_users,
             IF Head(member_user) \notin ignore_users
             THEN members \cup {Head(member_user)} ELSE members)

RECURSIVE freeipa_groups_loop(_, _, _, _)
freeipa_groups_loop(rows, ignore_users, ignore_groups, groups) ==
    IF rows = <<>> THEN [raised |-> FALSE, groups |-> groups]
    ELSE LET row == Head(rows)
             members == freeipa_members_loop(row.member_user, ignore_users, {})
         IN IF Missing(row, "cn") THEN [raised |-> TRUE, groups |-> groups]
            ELSE LET group == Group(fetch_required_string(row, "cn"),
                                    fetch_string(row, "description"), members)
                 IN IF group.name \in ignore_groups
                    THEN freeipa_groups_loop(Tail(rows), ignore_users,
                                             ignore_groups, groups)
                    ELSE freeipa_groups_loop(Tail(rows), ignore_users,
                                             ignore_groups,
                                             Put(groups, group.name, group))

\* fetch_freeipa over the two result lists of the server.
fetch_freeipa(user_rows, group_rows, ignore_users, ignore_groups) ==
    LET u == freeipa_users_loop(user_rows, ignore_users, <<>>) IN
    IF u.raised THEN Raised
    ELSE LET g == freeipa_groups_loop(group_rows, ignore_users, ignore_groups, <<>>)
         IN IF g.raised THEN Raised
            ELSE [raised |-> FALSE, users |-> u.users, groups |-> g.groups]

\* --------------------------------------------------------------- str.split
\* The characters of the strings the directory entries are made of.
Spelling ==
    {<<"alice", <<"a", "l", "i", "c", "e">>>>,
     <<"bob", <<"b", "o", "b">>>>,
     <<"alice@x", <<"a", "l", "i", "c", "e", "@", "x">>>>,
     <<"alice@y", <<"a", "l", "i", "c", "e", "@", "y">>>>,
     <<"bob@x", <<"b", "o", "b", "@", "x">>>>,
     <<"x", <<"x">>>>,
     <<"y", <<"y">>>>,
     <<"uid", <<"u", "i", "d">>>>,
     <<"uid=alice@x", <<"u", "i", "d", "=", "a", "l", "i", "c", "e", "@", "x">>>>,
     <<"uid=bob@x", <<"u", "i", "d", "=", "b", "o", "b", "@", "x">>>>,
     <<"uid=alice", <<"u", "i", "d", "=", "a", "l", "i", "c", "e">>>>,
     <<"ou=p", <<"o", "u", "=", "p">>>>,
     <<"uid=alice@x,ou=p", <<"u", "i", "d", "=", "a", "l", "i", "c", "e", "@", "x", ",", "o", "u", "=", "p">>>>,
     <<"uid=bob@x,ou=p", <<"u", "i", "d", "=", "b", "o", "b", "@", "x", ",", "o", "u", "=", "p">>>>,
     <<"uid=alice,ou=p", <<"u", "i", "d", "=", "a", "l", "i", "c", "e", ",", "o", "u", "=", "p">>>>}
Chars(text) == (CHOOSE p \in Spelling : p[1] = text)[2]
Text(chars) == (CHOOSE p \in Spelling : p[2] = chars)[1]

\* chars.split(sep) over sequences of characters.
RECURSIVE SplitChars(_, _)
SplitChars(chars, sep) ==
    IF \A i \in 1..Len(chars) : chars[i] # sep THEN <<chars>>
    ELSE LET i == CHOOSE k \in 1..Len(chars) :
                      chars[k] = sep /\ \A j \in 1..(k - 1) : chars[j] # sep
         IN <<SubSeq(chars, 1, i - 1)>>
            \o SplitChars(SubSeq(chars, i + 1, Len(chars)), sep)

split(text, sep) ==
    LET parts == SplitChars(Chars(text), sep)
    IN [i \in 1..Len(parts) |-> Text(parts[i])]

\* --------------------------------------------------------------- fetch_ldap
\* The [idp:ldap] attribute names and the [freeipa] idp_name.
LdapConfig ==
    [attr_username |-> "uid", attr_fname |-> "givenName", attr_lname |-> "sn",
     attr_name |-> "cn", attr_email |-> "mail", attr_uid |-> "uidNumber",
     attr_shell |-> "loginShell", attr_active |-> "status",
     attr_active_values |-> {"active"}, attr_group_members |-> "member",
     attr_group_name |-> "cn", attr_group_description |-> "description",
     idp_name |-> "idp1"]

ldap_user_of(attr, idp_username) ==
    User(split(idp_username, "@")[1],
         fetch_required_string(attr, LdapConfig.attr_name),
         fetch_required_string(attr, LdapConfig.attr_fname),
         fetch_required_string(attr, LdapConfig.attr_lname),
         fetch_string(attr, LdapConfig.attr_shell),
         fetch_string(attr, LdapConfig.attr_uid),
         IF fetch_required_string(attr, LdapConfig.attr_active)
                \in LdapConfig.attr_active_values THEN TRUE ELSE FALSE,
         fetch_string(attr, LdapConfig.attr_email),
         "idp", LdapConfig.idp_name, idp_username)

RECURSIVE ldap_users_loop(_, _, _)
ldap_users_loop(rows, ignore_users, users) ==
    IF rows = <<>> THEN [raised |-> FALSE, users |-> users]
    ELSE LET attr == Head(rows)
             idp_username == fetch_string(attr, LdapConfig.attr_username)
         IN IF idp_username = None \/ idp_username \in ignore_users
            THEN ldap_users_loop(Tail(rows), ignore_users, users)
            ELSE IF \E a \in {LdapConfig.attr_fname, LdapConfig.attr_lname,
                              LdapConfig.attr_name, LdapConfig.attr_active} :
                        Missing(attr, a)
            THEN [raised |-> TRUE, users |-> users]
            ELSE LET user == ldap_user_of(attr, idp_username) IN
                 IF user.username \in DOMAIN users
                 THEN [raised |-> TRUE, users |-> users]
                 ELSE ldap_users_loop(Tail(rows), ignore_users,
                                      Put(users, user.username, user))

RECURSIVE ldap_members_loop(_, _, _, _)
ldap_members_loop(values, ignore_users, users, members) ==
    IF values = <<>> THEN [raised |-> FALSE, members |-> members]
    ELSE LET rdn == split(Head(values), ",")[1]
             pair == split(rdn, "=")
         IN IF Len(pair) < 2 THEN [raised |-> TRUE, members |-> members]
            ELSE LET member == pair[2] IN
                 IF member \in ignore_users
                 THEN ldap_members_loop(Tail(values), ignore_users, users, members)
                 ELSE IF ~(split(member, "@")[1] \in DOMAIN users)
                 THEN ldap_members_loop(Tail(values), ignore_users, users, members)
                 ELSE ldap_members_loop(Tail(values), ignore_users, users,
                                        members \cup {split(member, "@")[1]})

RECURSIVE ldap_groups_loop(_, _, _, _, _)
ldap_groups_loop(rows, ignore_users, ignore_groups, users, groups) ==
    IF rows = <<>> THEN [raised |-> FALSE, groups |-> groups]
    ELSE LET attr == Head(rows) IN
         IF Falsy(attr.uniqueIdentifier)
         THEN ldap_groups_loop(Tail(rows), ignore_users, ignore_groups, users, groups)
         ELSE LET m == ldap_members_loop(attr[LdapConfig.attr_group_members],
                                         ignore_users, users, {})
              IN IF m.raised \/ Missing(attr, LdapConfig.attr_group_name)
                 THEN [raised |-> TRUE, groups |-> groups]
                 ELSE LET group == Group(
                              fetch_required_string(attr, LdapConfig.attr_group_name),
                              fetch_string(attr, LdapConfig.attr_group_description),
                              m.members)
                      IN IF group.name \in ignore_groups
                         THEN ldap_groups_loop(Tail(rows), ignore_users,
                                               ignore_groups, users, groups)
                         ELSE ldap_groups_loop(Tail(rows), ignore_users,
                                               ignore_groups, users,
                                               Put(groups, group.name, group))

\* fetch_ldap over the entries found under userdn and under groupdn.
fetch_ldap(user_rows, group_rows, ignore_users, ignore_groups) ==
    LET u == ldap_users_loop(user_rows, ignore_users, <<>>) IN
    IF u.raised THEN Raised
    ELSE LET g == ldap_groups_loop(group_rows, ignore_users, ignore_groups,
                                   u.users, <<>>)
         IN IF g.raised THEN Raised
            ELSE [raised |-> FALSE, users |-> u.users, groups |-> g.groups]

\* -------------------------------------------------------------- diff engine
\* users_not_in without its filter.
users_not_in_unfiltered(list1, list2) == Values(list1)

users_not_in(list1, list2) ==
    {user \in Values(list1) : user.username \notin DOMAIN list2}

groups_not_in(list1, list2) ==
    {group \in Values(list1) : group.name \notin DOMAIN list2}

\* user_match comparing the email even when the directory has none.
user_match_email_always(idp_user, freeipa_user) ==
    IF idp_user.fname # freeipa_user.fname THEN FALSE
    ELSE IF idp_user.lname # freeipa_user.lname THEN FALSE
    ELSE IF idp_user.name # freeipa_user.name THEN FALSE
    ELSE IF idp_user.email # freeipa_user.email THEN FALSE
    ELSE IF idp_user.active # freeipa_user.active THEN FALSE
    ELSE IF idp_user.auth_type # freeipa_user.auth_type THEN FALSE
    ELSE IF idp_user.idp_name # freeipa_user.idp_name THEN FALSE
    ELSE IF idp_user.idp_username # freeipa_user.idp_username THEN FALSE
    ELSE IF idp_user.uid # None /\ idp_user.uid # freeipa_user.uid THEN FALSE
    ELSE IF idp_user.shell # None /\ idp_user.shell # freeipa_user.shell THEN FALSE
    ELSE TRUE

user_match(idp_user, freeipa_user) ==
    IF idp_user.fname # freeipa_user.fname THEN FALSE
    ELSE IF idp_user.lname # freeipa_user.lname THEN FALSE
    ELSE IF idp_user.name # freeipa_user.name THEN FALSE
    ELSE IF idp_user.email # None /\ idp_user.email # freeipa_user.email THEN FALSE
    ELSE IF idp_user.active # freeipa_user.active THEN FALSE
    ELSE IF idp_user.auth_type # freeipa_user.auth_type THEN FALSE
    ELSE IF idp_user.idp_name # freeipa_user.idp_name THEN FALSE
    ELSE IF idp_user.idp_username # freeipa_user.idp_username THEN FALSE
    ELSE IF idp_user.uid # None /\ idp_user.uid # freeipa_user.uid THEN FALSE
    ELSE IF idp_user.shell # None /\ idp_user.shell # freeipa_user.shell THEN FALSE
    ELSE TRUE

modified_users(idp_users_, freeipa_users_) ==
    {idp_user \in Values(idp_users_) :
        /\ idp_user.username \in DOMAIN freeipa_users_
        /\ ~user_match(idp_user, freeipa_users_[idp_user.username])}

group_match(idp_group, freeipa_group) ==
    IF idp_group.description # freeipa_group.description THEN FALSE
    ELSE IF idp_group.members # freeipa_group.members THEN FALSE
    ELSE TRUE

modified_groups(idp_groups_, freeipa_groups_) ==
    {idp_group \in Values(idp_groups_) :
        /\ idp_group.name \in DOMAIN freeipa_groups_
        /\ ~group_match(idp_group, freeipa_groups_[idp_group.name])}

\* ------------------------------------------------ the server's mutation API
\* A keyword argument passed as None is not part of the request: the server
\* keeps (user_mod, group_mod) or defaults (user_add, group_add) the attribute.
DefaultUid == "5000"
DefaultShell == "/bin/sh"

\* user_params sending the given name as family name.
user_params_sn_from_fname(user) ==
    [a_uid |-> user.username, o_givenname |-> user.fname, o_sn |-> user.fname,
     o_cn |-> user.name, o_gecos |-> user.name, o_mail |-> user.email,
     o_ipauserauthtype |-> user.auth_type, o_ipaidpconfiglink |-> user.idp_name,
     o_ipaidpsub |-> user.idp_username, o_uidnumber |-> user.uid,
     o_gidnumber |-> user.uid, o_loginshell |-> user.shell,
     o_nsaccountlock |-> IF user.active THEN FALSE ELSE TRUE]

user_params(user) ==
    [a_uid |-> user.username, o_givenname |-> user.fname, o_sn |-> user.lname,
     o_cn |-> user.name, o_gecos |-> user.name, o_mail |-> user.email,
     o_ipauserauthtype |-> user.auth_type, o_ipaidpconfiglink |-> user.idp_name,
     o_ipaidpsub |-> user.idp_username, o_uidnumber |-> user.uid,
     o_gidnumber |-> user.uid, o_loginshell |-> user.shell,
     o_nsaccountlock |-> IF user.active THEN FALSE ELSE TRUE]

Sent(value, kept) == IF value = None THEN kept ELSE value

user_written(p, old) ==
    [uid |-> p.a_uid,
     givenname |-> Sent(p.o_givenname, old.givenname),
     sn |-> Sent(p.o_sn, old.sn),
     cn |-> Sent(p.o_cn, old.cn),
     gecos |-> Sent(p.o_gecos, old.gecos),
     mail |-> Sent(p.o_mail, old.mail),
     uidnumber |-> Sent(p.o_uidnumber, old.uidnumber),
     gidnumber |-> Sent(p.o_gidnumber, old.gidnumber),
     loginshell |-> Sent(p.o_loginshell, old.loginshell),
     nsaccountlock |-> p.o_nsaccountlock,
     ipauserauthtype |-> Sent(p.o_ipauserauthtype, old.ipauserauthtype),
     ipaidpconfiglink |-> Sent(p.o_ipaidpconfiglink, old.ipaidpconfiglink),
     ipaidpsub |-> Sent(p.o_ipaidpsub, old.ipaidpsub)]

NewUserEntry(uid) ==
    [uid |-> uid, givenname |-> None, sn |-> None, cn |-> None, gecos |-> None,
     mail |-> None, uidnumber |-> DefaultUid, gidnumber |-> DefaultUid,
     loginshell |-> DefaultShell, nsaccountlock |-> FALSE,
     ipauserauthtype |-> None, ipaidpconfiglink |-> None, ipaidpsub |-> None]

\* Each operation: whether the server accepts the request, and the server's
\* users and groups after it.  A rejected request raises BadRequest.
user_add_ok(su, p) == p.a_uid \notin DOMAIN su
user_add(su, p) == Put(su, p.a_uid, user_written(p, NewUserEntry(p.a_uid)))

user_mod_ok(su, p) ==
    /\ p.a_uid \in DOMAIN su
    /\ user_written(p, su[p.a_uid]) # su[p.a_uid]
user_mod(su, p) == Put(su, p.a_uid, user_written(p, su[p.a_uid]))

user_del_ok(su, uid) == uid \in DOMAIN su
user_del(su, uid) == Del(su, uid)
\* Deleting a user removes the user from every group.
user_del_groups(sg, uid) ==
    [g \in DOMAIN sg |-> [sg[g] EXCEPT !.member_user = @ \ {uid}]]

group_add_ok(sg, cn) == cn \notin DOMAIN sg
group_add(sg, cn, description) ==
    Put(sg, cn, [cn |-> cn, description |-> description, member_user |-> {}])

group_mod_ok(sg, cn, description) ==
    /\ cn \in DOMAIN sg
    /\ description # None
    /\ description # sg[cn].description
group_mod(sg, cn, description) ==
    [sg EXCEPT ![cn].description = description]

group_del_ok(sg, cn) == cn \in DOMAIN sg
group_del(sg, cn) == Del(sg, cn)

group_add_member_ok(su, sg, cn, user) ==
    cn \in DOMAIN sg /\ user \in DOMAIN su /\ user \notin sg[cn].member_user
group_add_member(sg, cn, user) ==
    [sg EXCEPT ![cn].member_user = @ \cup {user}]

group_remove_member_ok(sg, cn, user) ==
    cn \in DOMAIN sg /\ user \in sg[cn].member_user
group_remove_member(sg, cn, user) ==
    [sg EXCEPT ![cn].member_user = @ \ {user}]

\* ------------------------------------------------------------ client calls
Call(by, op, a, o) == [by |-> by, op |-> op, a |-> a, o |-> o]
Line(by, line, key, member) ==
    [by |-> by, line |-> line, key |-> key, member |-> member]

\* What a client.* call can do: nothing is sent in a dry run; otherwise the
\* server performs the request if it accepts it, and the call may raise.
Outcomes(skip, accepted) ==
    IF skip THEN {"skip"}
    ELSE IF accepted THEN {"ok", "raise"} ELSE {"raise"}

\* The effect of one handler step that prints `line` and issues `call`.
Step(line, call, res, users2, groups2) ==
    /\ out' = Append(out, line)
    /\ calls' = IF res = "skip" THEN calls ELSE Append(calls, call)
    /\ tgt_users' = IF res = "ok" THEN users2 ELSE tgt_users
    /\ tgt_groups' = IF res = "ok" THEN groups2 ELSE tgt_groups
    /\ UNCHANGED snapshots

\* ------------------------------------------------------- freeipa_group_mod
\* The members the two loops of freeipa_group_mod act on.
\* members_to_add with its membership test inverted.
members_to_add_inverted(idpgroup, freeipagroup) ==
    IF idpgroup.members # freeipagroup.members
    THEN {member \in idpgroup.members : member \in freeipagroup.members}
    ELSE {}

members_to_add(idpgroup, freeipagroup) ==
    IF idpgroup.members # freeipagroup.members
    THEN {member \in idpgroup.members : member \notin freeipagroup.members}
    ELSE {}

\* members_to_remove that does not skip the deleted users.
members_to_remove_unskipped(idpgroup, freeipagroup, idp_users_) ==
    IF idpgroup.members # freeipagroup.members
    THEN {member \in freeipagroup.members : member \notin idpgroup.members}
    ELSE {}

members_to_remove(idpgroup, freeipagroup, idp_users_) ==
    IF idpgroup.members # freeipagroup.members
    THEN {member \in freeipagroup.members :
            /\ member \notin idpgroup.members
            /\ ~(member \notin DOMAIN idp_users_)}
    ELSE {}

\* ------------------------------------------------------------------- sync
Phases == <<"user_add", "user_del", "group_add", "group_del", "user_mod",
            "group_mod">>

\* PhaseAfter with the groups added before the users.
PhaseAfter_groups_first(p) ==
    CASE p = "start" -> "group_add"
      [] p = "group_add" -> "user_add"
      [] p = "user_add" -> "user_del"
      [] p = "user_del" -> "group_del"
      [] p = "group_del" -> "user_mod"
      [] p = "user_mod" -> "group_mod"
      [] p = "group_mod" -> "done"

\* PhaseAfter with the group deletions after the user modifications.
PhaseAfter_mod_first(p) ==
    CASE p = "start" -> "user_add"
      [] p = "user_add" -> "user_del"
      [] p = "user_del" -> "group_add"
      [] p = "group_add" -> "user_mod"
      [] p = "user_mod" -> "group_del"
      [] p = "group_del" -> "group_mod"
      [] p = "group_mod" -> "done"

\* The statement of sync() that follows the loop of phase p.
PhaseAfter(p) ==
    CASE p = "start" -> "user_add"
      [] p = "user_add" -> "user_del"
      [] p = "user_del" -> "group_add"
      [] p = "group_add" -> "group_del"
      [] p = "group_del" -> "user_mod"
      [] p = "user_mod" -> "group_mod"
      [] p = "group_mod" -> "done"

\* The list sync() computes on entering phase p.
PhaseList(p) ==
    CASE p = "user_add" -> users_not_in(idp_users, freeipa_users)
      [] p = "user_del" -> users_not_in(freeipa_users, idp_users)
      [] p = "group_add" -> groups_not_in(idp_groups, freeipa_groups)
      [] p = "group_del" -> groups_not_in(freeipa_groups, idp_groups)
      [] p = "user_mod" -> modified_users(idp_users, freeipa_users)
      [] p = "group_mod" -> modified_groups(idp_groups, freeipa_groups)
      [] p = "done" -> {}

InLoop(p) == pc = p /\ cur = None

\* The next phase of sync() whose list is not empty: sync() computes each
\* list in turn and enters only the loops that have something to do.
RECURSIVE NextPhase(_)
NextPhase(p) ==
    LET q == PhaseAfter(p) IN
    IF q = "done" \/ PhaseList(q) # {} THEN q ELSE NextPhase(q)

\* sync(): the loop of the current phase is over; go on to the next one.
sync ==
    /\ pc \in {"start"} \cup {Phases[i] : i \in 1..Len(Phases)}
    /\ todo = {} /\ cur = None
    /\ pc' = NextPhase(pc)
    /\ todo' = PhaseList(NextPhase(pc))
    /\ UNCHANGED <<snapshots, tgt_users, tgt_groups, cur, madd, mrem, calls, out>>

\* Continue with the failure of a call caught: the loop goes on.
Continue_caught(res, item) ==
    /\ pc' = pc
    /\ todo' = todo \ {item}

\* A client.* call that raises is not caught by the handler nor by sync():
\* the loop is left where it stood.
Continue(res, item) ==
    /\ pc' = IF res = "raise" THEN "failed" ELSE pc
    /\ todo' = IF res = "raise" THEN todo ELSE todo \ {item}

freeipa_user_add ==
    /\ InLoop("user_add")
    /\ \E user \in todo :
       \E res \in Outcomes(dry_run, user_add_ok(tgt_users, user_params(user))) :
        /\ Step(Line("freeipa_user_add", "Adding User", user.username, None),
                Call("freeipa_user_add", "user_add", user.username, user_params(user)),
                res, user_add(tgt_users, user_params(user)), tgt_groups)
        /\ Continue(res, user)
        /\ UNCHANGED <<cur, madd, mrem>>

freeipa_user_mod ==
    /\ InLoop("user_mod")
    /\ \E user \in todo :
       \E res \in Outcomes(dry_run, user_mod_ok(tgt_users, user_params(user))) :
        /\ Step(Line("freeipa_user_mod", "Updating User", user.username, None),
                Call("freeipa_user_mod", "user_mod", user.username, user_params(user)),
                res, user_mod(tgt_users, user_params(user)), tgt_groups)
        /\ Continue(res, user)
        /\ UNCHANGED <<cur, madd, mrem>>

\* freeipa_user_del without its dry-run return.
freeipa_user_del_always ==
    /\ InLoop("user_del")
    /\ \E user \in todo :
       \E res \in Outcomes(FALSE, user_del_ok(tgt_users, user.username)) :
        /\ Step(Line("freeipa_user_del", "Deleting User", user.username, None),
                Call("freeipa_user_del", "user_del", user.username,
                     [o_preserve |-> FALSE]),
                res, user_del(tgt_users, user.username),
                user_del_groups(tgt_groups, user.username))
        /\ Continue(res, user)
        /\ UNCHANGED <<cur, madd, mrem>>

freeipa_user_del ==
    /\ InLoop("user_del")
    /\ \E user \in todo :
       \E res \in Outcomes(dry_run, user_del_ok(tgt_users, user.username)) :
        /\ Step(Line("freeipa_user_del", "Deleting User", user.username, None),
                Call("freeipa_user_del", "user_del", user.username,
                     [o_preserve |-> FALSE]),
                res, user_del(tgt_users, user.username),
                user_del_groups(tgt_groups, user.username))
        /\ Continue(res, user)
        /\ UNCHANGED <<cur, madd, mrem>>

\* freeipa_group_add up to its member loop.
freeipa_group_add ==
    /\ InLoop("group_add")
    /\ \E group \in todo :
       \E res \in Outcomes(dry_run, group_add_ok(tgt_groups, group.name)) :
        /\ Step(Line("freeipa_group_add", "Adding Group", group.name, None),
                Call("freeipa_group_add", "group_add", group.name,
                     [o_description |-> group.description]),
                res, tgt_users, group_add(tgt_groups, group.name, group.description))
        /\ Continue(res, group)
        /\ IF res # "raise" /\ group.members # {}
           THEN cur' = group.name /\ madd' = group.members
           ELSE UNCHANGED <<cur, madd>>
        /\ UNCHANGED mrem

\* One round of the member loop of freeipa_group_add.
freeipa_group_add_member ==
    /\ pc = "group_add" /\ cur # None
    /\ \E member \in madd :
       \E res \in Outcomes(dry_run, group_add_member_ok(tgt_users, tgt_groups, cur, member)) :
        /\ Step(Line("freeipa_group_add", "Adding member", cur, member),
                Call("freeipa_group_add", "group_add_member", cur, [o_user |-> member]),
                res, tgt_users, group_add_member(tgt_groups, cur, member))
        /\ pc' = IF res = "raise" THEN "failed" ELSE pc
        /\ madd' = IF res = "raise" THEN madd ELSE madd \ {member}
        /\ cur' = IF res # "raise" /\ madd \ {member} = {} THEN None ELSE cur
        /\ UNCHANGED <<todo, mrem>>

freeipa_group_del ==
    /\ InLoop("group_del")
    /\ \E group \in todo :
       \E res \in Outcomes(dry_run, group_del_ok(tgt_groups, group.name)) :
        /\ Step(Line("freeipa_group_del", "Deleting Group", group.name, None),
                Call("freeipa_group_del", "group_del", group.name, None),
                res, tgt_users, group_del(tgt_groups, group.name))
        /\ Continue(res, group)
        /\ UNCHANGED <<cur, madd, mrem>>

\* description_sent without the comparison of the descriptions.
description_sent_always(dry, idpgroup, freeipagroup) == ~dry

\* Whether freeipa_group_mod calls group_mod for the description.
description_sent(dry, idpgroup, freeipagroup) ==
    ~dry /\ idpgroup.description # freeipagroup.description

\* freeipa_group_mod up to its member loops.
freeipa_group_mod ==
    /\ InLoop("group_mod")
    /\ \E idpgroup \in todo :
       LET freeipagroup == freeipa_groups[idpgroup.name]
           toadd == members_to_add(idpgroup, freeipagroup)
           toremove == members_to_remove(idpgroup, freeipagroup, idp_users)
       IN
       \E res \in Outcomes(~description_sent(dry_run, idpgroup, freeipagroup),
                           group_mod_ok(tgt_groups, idpgroup.name, idpgroup.description)) :
        /\ Step(Line("freeipa_group_mod", "Updating Group", idpgroup.name, None),
                Call("freeipa_group_mod", "group_mod", idpgroup.name,
                     [o_description |-> idpgroup.description]),
                res, tgt_users, group_mod(tgt_groups, idpgroup.name, idpgroup.description))
        /\ Continue(res, idpgroup)
        /\ IF res # "raise" /\ toadd \cup toremove # {}
           THEN cur' = idpgroup.name /\ madd' = toadd /\ mrem' = toremove
           ELSE UNCHANGED <<cur, madd, mrem>>

\* One round of the first member loop of freeipa_group_mod.
freeipa_group_mod_add_member ==
    /\ pc = "group_mod" /\ cur # None
    /\ \E member \in madd :
       \E res \in Outcomes(dry_run, group_add_member_ok(tgt_users, tgt_groups, cur, member)) :
        /\ Step(Line("freeipa_group_mod", "Adding member", cur, member),
                Call("freeipa_group_mod", "group_add_member", cur, [o_user |-> member]),
                res, tgt_users, group_add_member(tgt_groups, cur, member))
        /\ pc' = IF res = "raise" THEN "failed" ELSE pc
        /\ madd' = IF res = "raise" THEN madd ELSE madd \ {member}
        /\ cur' = IF res # "raise" /\ madd \ {member} = {} /\ mrem = {}
                  THEN None ELSE cur
        /\ UNCHANGED <<todo, mrem>>

\* One round of the second member loop of freeipa_group_mod.
freeipa_group_mod_remove_member ==
    /\ pc = "group_mod" /\ cur # None /\ madd = {}
    /\ \E member \in mrem :
       \E res \in Outcomes(dry_run, group_remove_member_ok(tgt_groups, cur, member)) :
        /\ Step(Line("freeipa_group_mod", "Removing member", cur, member),
                Call("freeipa_group_mod", "group_remove_member", cur, [o_user |-> member]),
                res, tgt_users, group_remove_member(tgt_groups, cur, member))
        /\ pc' = IF res = "raise" THEN "failed" ELSE pc
        /\ mrem' = IF res = "raise" THEN mrem ELSE mrem \ {member}
        /\ cur' = IF res # "raise" /\ mrem \ {member} = {} THEN None ELSE cur
        /\ UNCHANGED <<todo, madd>>

\* ------------------------------------------------------------ initial states
Descriptions == {None, "team"}

\* Users as the directory loader builds them: auth_type "idp", the configured
\* idp_name, and shell, uid, email present or not configured.
IdpUsersOf(n) ==
    {User(n, n, "F", "L", o[1], o[2], TRUE, o[3], "idp", "idp1", n)
     : o \in {<<"/bin/bash", "1000", "m@x">>, <<None, None, None>>}}

\* Entries the server may hold for uid n: one written by an earlier sync, and
\* a locked local account without given name and without the idp attributes.
TgtEntriesOf(n) ==
    {UserEntry(n, "F", "L", n, "m@x", "1000", "/bin/bash", FALSE, "idp", "idp1", n),
     UserEntry(n, None, "L", n, "old@x", "2000", "/bin/sh", TRUE, None, None, None)}

\* An empty directory, and a configuration that ignores nothing.
NoDirectory == [users |-> <<>>, groups |-> <<>>]
NoIgnores == [ldap_ignore_users |-> {}, ldap_ignore_groups |-> {},
              freeipa_ignore_users |-> {}, freeipa_ignore_groups |-> {}]

\* Every dictionary over a subset of Keys that maps k to a member of of[k].
RECURSIVE DictsOn(_, _)
DictsOn(D, of) ==
    IF D = {} THEN {<<>>}
    ELSE LET k == CHOOSE x \in D : TRUE
         IN {Put(f, k, v) : f \in DictsOn(D \ {k}, of), v \in of[k]}
DictsOver(Keys, of) == UNION {DictsOn(D, of) : D \in SUBSET Keys}

Entries == Cardinality(DOMAIN idp_users) + Cardinality(DOMAIN tgt_users)
           + Cardinality(DOMAIN idp_groups) + Cardinality(DOMAIN tgt_groups)

\* The directory snapshot as fetch_ldap returns it (every member of a group is
\* one of its users), the server, and the server's snapshot.
InitSnapshots ==
    /\ dry_run \in BOOLEAN
    /\ idp_users \in DictsOver(Usernames, [n \in Usernames |-> IdpUsersOf(n)])
    /\ tgt_users \in DictsOver(Usernames, [n \in Usernames |-> TgtEntriesOf(n)])
    /\ Cardinality(DOMAIN idp_users) + Cardinality(DOMAIN tgt_users) <= MaxEntries
    /\ idp_groups \in DictsOver(GroupNames,
          [g \in GroupNames |-> {Group(g, d, m) : d \in Descriptions,
                                                  m \in SUBSET DOMAIN idp_users}])
    /\ tgt_groups \in DictsOver(GroupNames,
          [g \in GroupNames |-> {[cn |-> g, description |-> d, member_user |-> m]
                                 : d \in Descriptions, m \in SUBSET DOMAIN tgt_users}])
    /\ Entries <= MaxEntries
    /\ directory = NoDirectory /\ config = NoIgnores
    /\ LET loaded == fetch_freeipa(user_find(tgt_users), group_find(tgt_groups),
                                   config.freeipa_ignore_users,
                                   config.freeipa_ignore_groups)
       IN /\ ~loaded.raised
          /\ freeipa_users = loaded.users
          /\ freeipa_groups = loaded.groups

Init ==
    /\ InitSnapshots
    /\ pc = "start" /\ todo = {} /\ cur = None /\ madd = {} /\ mrem = {}
    /\ calls = <<>> /\ out = <<>>

Next ==
    \/ sync
    \/ freeipa_user_add
    \/ freeipa_user_del
    \/ freeipa_group_add
    \/ freeipa_group_add_member
    \/ freeipa_group_del
    \/ freeipa_user_mod
    \/ freeipa_group_mod
    \/ freeipa_group_mod_add_member
    \/ freeipa_group_mod_remove_member

Spec == Init /\ [][Next]_vars

\* ------------------------------------------------ the two loads of sync()
\* Rows of a list drawn from a pool.
MaxRows == 2
ListsOf(Pool) == UNION {[1..k -> Pool] : k \in 0..MaxRows}

LdapUserRow(uid, sn) ==
    [uid |-> uid, givenName |-> "F", sn |-> sn, cn |-> "N", mail |-> None,
     uidNumber |-> None, loginShell |-> None, status |-> "active"]

\* Entries under userdn: plain and email-like usernames, the container entry
\* (no username) and an entry without family name.
LdapUserRows ==
    {LdapUserRow(uid, "L") : uid \in {"alice", "alice@x", "alice@y", "bob@x", None}}
    \cup {LdapUserRow("bob", None)}

LdapGroupRow(id, cn, description, member) ==
    [uniqueIdentifier |-> id, cn |-> cn, description |-> description,
     member |-> member]

\* Entries under groupdn: two of the same name, one referring to a plain
\* username, the container entry (no uniqueIdentifier) and one without name.
LdapGroupRows ==
    {LdapGroupRow("1", "eng", "team", <<"uid=alice@x,ou=p", "uid=bob@x,ou=p">>),
     LdapGroupRow("2", "eng", None, <<>>),
     LdapGroupRow("3", "ops", None, <<"uid=alice,ou=p">>),
     LdapGroupRow(None, "ops", None, <<"uid=bob@x,ou=p">>),
     LdapGroupRow("5", None, None, <<>>)}

\* sync(), line 68.
sync_fetch_ldap ==
    /\ pc = "fetch_ldap"
    /\ LET r == fetch_ldap(directory.users, directory.groups,
                           config.ldap_ignore_users, config.ldap_ignore_groups)
       IN IF r.raised
          THEN pc' = "failed" /\ UNCHANGED <<idp_users, idp_groups>>
          ELSE pc' = "fetch_freeipa" /\ idp_users' = r.users /\ idp_groups' = r.groups
    /\ UNCHANGED <<freeipa_users, freeipa_groups, dry_run, tgt_users, tgt_groups,
                   todo, cur, madd, mrem, calls, out, directory, config>>

\* sync(), line 69.
sync_fetch_freeipa ==
    /\ pc = "fetch_freeipa"
    /\ LET r == fetch_freeipa(user_find(tgt_users), group_find(tgt_groups),
                              config.freeipa_ignore_users,
                              config.freeipa_ignore_groups)
       IN IF r.raised
          THEN pc' = "failed" /\ UNCHANGED <<freeipa_users, freeipa_groups>>
          ELSE pc' = "start" /\ freeipa_users' = r.users /\ freeipa_groups' = r.groups
    /\ UNCHANGED <<idp_users, idp_groups, dry_run, tgt_users, tgt_groups,
                   todo, cur, madd, mrem, calls, out, directory, config>>

Idle == /\ todo = {} /\ cur = None /\ madd = {} /\ mrem = {}
        /\ calls = <<>> /\ out = <<>>

\* Either a directory in front of an empty server, or a server behind an
\* empty directory.
InitLoad ==
    /\ dry_run = FALSE
    /\ pc = "fetch_ldap" /\ Idle
    /\ idp_users = <<>> /\ idp_groups = <<>>
    /\ freeipa_users = <<>> /\ freeipa_groups = <<>>
    /\ \/ /\ directory \in [users : ListsOf(LdapUserRows),
                            groups : ListsOf(LdapGroupRows)]
          /\ config \in [ldap_ignore_users : {{}, {"alice"}, {"alice@x"}},
                         ldap_ignore_groups : {{}, {"eng"}},
                         freeipa_ignore_users : {{}},
                         freeipa_ignore_groups : {{}}]
          /\ tgt_users = <<>> /\ tgt_groups = <<>>
       \/ /\ directory = NoDirectory
          /\ config \in [ldap_ignore_users : {{}},
                         ldap_ignore_groups : {{}},
                         freeipa_ignore_users : {{}, {"alice"}},
                         freeipa_ignore_groups : {{}, {"eng"}}]
          /\ tgt_users \in DictsOver(Usernames, [n \in Usernames |-> TgtEntriesOf(n)])
          /\ tgt_groups \in DictsOver(GroupNames,
                [g \in GroupNames |-> {[cn |-> g, description |-> d, member_user |-> m]
                                       : d \in Descriptions, m \in SUBSET DOMAIN tgt_users}])

NextLoad == sync_fetch_ldap \/ sync_fetch_freeipa

SpecLoad == InitLoad /\ [][NextLoad]_vars

\* ------------------------------------------------------ sync(), line 98 alone
\* A directory user with shell, uid and email each present or absent.
MatchIdpUsersOf(n) ==
    {User(n, "N", "F", "L", shell, uid, active, email, "idp", "idp1", n)
     : shell \in {None, "/bin/bash"}, uid \in {None, "1000"},
       active \in BOOLEAN, email \in {None, "m@x"}}

\* A server user that agrees or not with the directory on each attribute.
MatchFreeipaUsersOf(n) ==
    {User(n, name, fname, lname, shell, uid, active, email, auth_type, idp_name,
          idp_username)
     : name \in {"N", "N2"}, fname \in {"F", ""}, lname \in {"L", "L2"},
       shell \in {None, "/bin/bash", "/bin/sh"}, uid \in {"1000", "2000"},
       active \in BOOLEAN, email \in {None, "m@x", "old@x"},
       auth_type \in {"idp", "password"}, idp_name \in {"idp1", ""},
       idp_username \in {n, ""}}

sync_modified_users ==
    /\ pc = "modified_users"
    /\ todo' = modified_users(idp_users, freeipa_users)
    /\ pc' = "user_mod"
    /\ UNCHANGED <<snapshots, tgt_users, tgt_groups, cur, madd, mrem, calls, out>>

\* alice in every combination of attributes, next to bob absent, new or
\* modified.
InitMatch ==
    /\ dry_run = TRUE
    /\ pc = "modified_users" /\ Idle
    /\ directory = NoDirectory /\ config = NoIgnores
    /\ tgt_users = <<>> /\ tgt_groups = <<>>
    /\ idp_groups = <<>> /\ freeipa_groups = <<>>
    /\ \E a \in DictsOver({"alice"}, [n \in {"alice"} |-> MatchIdpUsersOf(n)]),
          b \in DictsOver({"alice"}, [n \in {"alice"} |-> MatchFreeipaUsersOf(n)]),
          bob \in {"absent", "new", "modified"} :
        LET bob_idp == User("bob", "N", "F", "L", None, None, TRUE, None,
                            "idp", "idp1", "bob")
            bob_freeipa == [bob_idp EXCEPT !.uid = "2000", !.lname = "L2"]
        IN /\ idp_users = IF bob = "absent" THEN a ELSE Put(a, "bob", bob_idp)
           /\ freeipa_users = IF bob = "modified" THEN Put(b, "bob", bob_freeipa)
                              ELSE b

NextMatch == sync_modified_users

SpecMatch == InitMatch /\ [][NextMatch]_vars

\* ===================================================================== claims
\* What the run has printed and issued so far.
Printed(by, line) ==
    {out[i] : i \in {j \in 1..Len(out) : out[j].by = by /\ out[j].line = line}}
Issued(by, op) ==
    {calls[i] : i \in {j \in 1..Len(calls) : calls[j].by = by /\ calls[j].op = op}}

InBoth == DOMAIN idp_groups \cap DOMAIN freeipa_groups
GroupEquality(g) ==
    /\ idp_groups[g].description = freeipa_groups[g].description
    /\ idp_groups[g].members = freeipa_groups[g].members

\* The group is no longer waiting for, nor inside, freeipa_group_mod.
GroupModOver(g) ==
    \/ pc = "done"
    \/ pc = "group_mod" /\ cur # g /\ \A group \in todo : group.name # g

ModAdded(g) ==
    {l.member : l \in {x \in Printed("freeipa_group_mod", "Adding member") : x.key = g}}
ModRemoved(g) ==
    {l.member : l \in {x \in Printed("freeipa_group_mod", "Removing member") : x.key = g}}
ModAddCalls(g) ==
    {c.o.o_user : c \in {x \in Issued("freeipa_group_mod", "group_add_member") : x.a = g}}
ModRemoveCalls(g) ==
    {c.o.o_user : c \in {x \in Issued("freeipa_group_mod", "group_remove_member") : x.a = g}}

ToAdd(g) == idp_groups[g].members \ freeipa_groups[g].members
ToRemove(g) ==
    (freeipa_groups[g].members \ idp_groups[g].members) \cap DOMAIN idp_users

\* C1: for every group of both snapshots that fails group equality, the
\* membership changes freeipa_group_mod reports (and, in a real run, issues)
\* are never more than, and once the handler is over exactly: the desired
\* members missing from the current ones as additions, and the current members
\* missing from the desired ones that are still users of the directory as
\* removals, whether or not there is anything to add.
C1_MembershipChanges ==
    \A g \in InBoth :
        ~GroupEquality(g) =>
            /\ ModAdded(g) \subseteq ToAdd(g)
            /\ ModRemoved(g) \subseteq ToRemove(g)
            /\ ModAddCalls(g) = (IF dry_run THEN {} ELSE ModAdded(g))
            /\ ModRemoveCalls(g) = (IF dry_run THEN {} ELSE ModRemoved(g))
            /\ GroupModOver(g) =>
                 ModAdded(g) = ToAdd(g) /\ ModRemoved(g) = ToRemove(g)

\* A real run is over in which a group that lost all its desired members had
\* one member removed and another, unknown to the directory, left alone.
C1_Witness ==
    /\ pc = "done" /\ ~dry_run
    /\ \E g \in InBoth :
        /\ idp_groups[g].members = {}
        /\ ModRemoveCalls(g) # {}
        /\ freeipa_groups[g].members \ DOMAIN idp_users # {}

\* C2 as stated: for every group of both snapshots, once freeipa_group_mod is
\* over for it, the desired members are the current members without the
\* removed ones plus the added ones.
C2_DeltaReachesDesired ==
    \A g \in InBoth :
        GroupModOver(g) =>
            idp_groups[g].members
                = (freeipa_groups[g].members \ ModRemoved(g)) \cup ModAdded(g)

\* C2, amended: for every group of both snapshots, once freeipa_group_mod is
\* over for it, the current members without the removed ones plus the added
\* ones are the desired members together with the current members that are
\* not users of the directory.
C2_DeltaUpToUnknownUsers ==
    \A g \in InBoth :
        GroupModOver(g) =>
            (freeipa_groups[g].members \ ModRemoved(g)) \cup ModAdded(g)
                = idp_groups[g].members
                  \cup (freeipa_groups[g].members \ DOMAIN idp_users)

\* A group was modified by adding one member while a current member unknown
\* to the directory stayed out of the removals.
C2_Witness ==
    \E g \in InBoth :
        /\ GroupModOver(g)
        /\ ModAdded(g) # {}
        /\ (freeipa_groups[g].members \ idp_groups[g].members) \ DOMAIN idp_users # {}

\* C3: after a real run that completed (no call raised), loading the server
\* again and computing the six lists against the same directory snapshot
\* gives six empty lists.
C3_Converged ==
    (pc = "done" /\ ~dry_run) =>
        LET again == fetch_freeipa(user_find(tgt_users), group_find(tgt_groups),
                                   config.freeipa_ignore_users,
                                   config.freeipa_ignore_groups)
        IN /\ ~again.raised
           /\ users_not_in(idp_users, again.users) = {}
           /\ users_not_in(again.users, idp_users) = {}
           /\ groups_not_in(idp_groups, again.groups) = {}
           /\ groups_not_in(again.groups, idp_groups) = {}
           /\ modified_users(idp_users, again.users) = {}
           /\ modified_groups(idp_groups, again.groups) = {}

\* A real run is over that deleted a user who was a member of a modified
\* group, and left the removal of that membership to the deletion.
C3_Witness ==
    /\ pc = "done" /\ ~dry_run
    /\ \E g \in InBoth, c \in Issued("freeipa_user_del", "user_del") :
        /\ c.a \in freeipa_groups[g].members
        /\ ModAddCalls(g) # {}

\* Directional user equality, as the entity model states it.
UserEquality(desired, current) ==
    /\ desired.lname = current.lname
    /\ desired.name = current.name
    /\ desired.fname = current.fname
    /\ desired.active = current.active
    /\ desired.auth_type = current.auth_type
    /\ desired.idp_name = current.idp_name
    /\ desired.idp_username = current.idp_username
    /\ desired.email = None \/ desired.email = current.email
    /\ desired.uid = None \/ desired.uid = current.uid
    /\ desired.shell = None \/ desired.shell = current.shell

KeysOf(lines) == {l.key : l \in lines}
UsersAdded == KeysOf(Printed("freeipa_user_add", "Adding User"))
UsersDeleted == KeysOf(Printed("freeipa_user_del", "Deleting User"))
UsersModified == KeysOf(Printed("freeipa_user_mod", "Updating User"))
UserLines == {i \in 1..Len(out) : out[i].by \in {"freeipa_user_add",
                                  "freeipa_user_del", "freeipa_user_mod"}}

OnlyDesired == DOMAIN idp_users \ DOMAIN freeipa_users
OnlyCurrent == DOMAIN freeipa_users \ DOMAIN idp_users
Mismatched == {n \in DOMAIN idp_users \cap DOMAIN freeipa_users :
                 ~UserEquality(idp_users[n], freeipa_users[n])}

\* C5: a username is handled as an addition only if it is in the desired
\* snapshot alone, as a deletion only if it is in the current snapshot alone,
\* as a modification only if it is in both and mismatched, never twice, and
\* when the run completes each of these usernames has been handled so; a
\* username in both and matched is in none of the three lists.
C5_Partition ==
    /\ UsersAdded \subseteq OnlyDesired
    /\ UsersDeleted \subseteq OnlyCurrent
    /\ UsersModified \subseteq Mismatched
    /\ Cardinality(UserLines)
         = Cardinality(UsersAdded) + Cardinality(UsersDeleted)
           + Cardinality(UsersModified)
    /\ pc = "done" =>
         /\ UsersAdded = OnlyDesired
         /\ UsersDeleted = OnlyCurrent
         /\ UsersModified = Mismatched

\* A run is over that added one user and modified another.
C5_Witness == pc = "done" /\ UsersAdded # {} /\ UsersModified # {}

Before(rank(_)) ==
    \A i, j \in 1..Len(out) : i < j => rank(out[i].by) <= rank(out[j].by)

RankClaimed(by) ==
    CASE by = "freeipa_user_add" -> 1
      [] by = "freeipa_group_add" -> 2
      [] by = "freeipa_user_del" -> 3
      [] by = "freeipa_group_del" -> 4
      [] by = "freeipa_user_mod" -> 5
      [] by = "freeipa_group_mod" -> 6

RankInCode(by) ==
    CASE by = "freeipa_user_add" -> 1
      [] by = "freeipa_user_del" -> 2
      [] by = "freeipa_group_add" -> 3
      [] by = "freeipa_group_del" -> 4
      [] by = "freeipa_user_mod" -> 5
      [] by = "freeipa_group_mod" -> 6

\* The keys of the category's whole list.
CategoryKeys(by) ==
    CASE by = "freeipa_user_add" -> OnlyDesired
      [] by = "freeipa_user_del" -> OnlyCurrent
      [] by = "freeipa_group_add" -> DOMAIN idp_groups \ DOMAIN freeipa_groups
      [] by = "freeipa_group_del" -> DOMAIN freeipa_groups \ DOMAIN idp_groups
      [] by = "freeipa_user_mod" -> Mismatched
      [] by = "freeipa_group_mod" -> {g \in InBoth : ~GroupEquality(g)}

Handlers == {"freeipa_user_add", "freeipa_user_del", "freeipa_group_add",
             "freeipa_group_del", "freeipa_user_mod", "freeipa_group_mod"}

\* Every action of an earlier category precedes every action of a later one.
AllBefore(rank(_)) ==
    \A j \in 1..Len(out) : \A by \in Handlers :
        rank(by) < rank(out[j].by) =>
            CategoryKeys(by) \subseteq {out[i].key : i \in {k \in 1..(j - 1) : out[k].by = by}}

\* C6 as stated: the actions are applied in the order user adds, group adds
\* with their members, user deletes, group deletes, user modifications, group
\* modifications.
C6_ClaimedOrder == Before(RankClaimed)

\* C6, amended: the actions are applied in the order user adds, user deletes,
\* group adds with their members, group deletes, user modifications, group
\* modifications with their membership changes, and no action of a later
\* category is applied before all actions of an earlier one.
C6_OrderInCode == Before(RankInCode) /\ AllBefore(RankInCode)

\* A run deleted a user, then added a group, then modified a user.
C6_Witness ==
    \E i, j, k \in 1..Len(out) :
        /\ i < j /\ j < k
        /\ out[i].by = "freeipa_user_del"
        /\ out[j].by = "freeipa_group_add"
        /\ out[k].by = "freeipa_user_mod"

\* C7: in a dry run no mutating call is ever issued and no step changes the
\* users or the groups of the server.
C7_DryRunIssuesNothing ==
    /\ [](dry_run => calls = <<>>)
    /\ [][dry_run => tgt_users' = tgt_users /\ tgt_groups' = tgt_groups]_vars

\* A dry run is over that reported an addition, a deletion and a member
\* change.
C7_Witness ==
    /\ dry_run /\ pc = "done"
    /\ Printed("freeipa_user_add", "Adding User") # {}
    /\ Printed("freeipa_group_del", "Deleting Group") # {}
    /\ Printed("freeipa_group_mod", "Adding member") # {}

GroupModStarted(g) ==
    \E l \in Printed("freeipa_group_mod", "Updating Group") : l.key = g
GroupModCalled(g) ==
    \E c \in Issued("freeipa_group_mod", "group_mod") : c.a = g

\* C10: freeipa_group_mod runs only for groups of both snapshots that fail
\* group equality, and it issues group_mod for such a group exactly when the
\* run is real and the desired description differs from the current one.
C10_DescriptionCall ==
    /\ \A c \in Issued("freeipa_group_mod", "group_mod") : c.a \in InBoth
    /\ \A g \in InBoth :
        /\ GroupModCalled(g) => GroupModStarted(g)
        /\ GroupModStarted(g) =>
            /\ ~GroupEquality(g)
            /\ GroupModCalled(g) <=>
                 (~dry_run /\ idp_groups[g].description # freeipa_groups[g].description)

\* A real run changed the members of a group whose description was already
\* the desired one, without calling group_mod.
C10_Witness ==
    /\ ~dry_run
    /\ \E g \in InBoth :
        /\ idp_groups[g].description = freeipa_groups[g].description
        /\ ModAddCalls(g) # {}
        /\ ~GroupModCalled(g)

\* C4: modified_users returns exactly the directory's users whose username is
\* in both snapshots and for whom directional user equality fails.
C4_ModifiedUsers ==
    pc = "user_mod" => todo = {idp_users[n] : n \in Mismatched}

\* modified_users returned bob and not alice, whose email, uid and shell are
\* absent in the directory and present on the server.
C4_Witness ==
    /\ pc = "user_mod"
    /\ "bob" \in DOMAIN idp_users /\ idp_users["bob"] \in todo
    /\ "alice" \in DOMAIN idp_users \cap DOMAIN freeipa_users
    /\ idp_users["alice"] \notin todo
    /\ idp_users["alice"].email = None /\ freeipa_users["alice"].email = "old@x"
    /\ idp_users["alice"].uid = None
    /\ idp_users["alice"].shell = None /\ freeipa_users["alice"].shell = "/bin/sh"

\* The entries fetch_ldap builds a user or a group from.
LdapUserKey(i) ==
    LET raw == directory.users[i].uid IN
    IF raw = None \/ raw \in config.ldap_ignore_users THEN None
    ELSE split(raw, "@")[1]
LdapGroupKey(i) ==
    LET row == directory.groups[i] IN
    IF row.uniqueIdentifier = None \/ row.cn = None
       \/ row.cn \in config.ldap_ignore_groups THEN None
    ELSE row.cn
SharedKey(n, Key(_)) ==
    \E i, j \in 1..n : i # j /\ Key(i) # None /\ Key(i) = Key(j)

\* C8: when two entries of the directory give users of the same username, or
\* groups of the same name, fetch_ldap raises and sync() stops without a
\* snapshot.  (The FreeIPA server holds one entry per uid and per cn.)
C8_DuplicateIsFatal ==
    (/\ pc # "fetch_ldap"
     /\ \/ SharedKey(Len(directory.users), LdapUserKey)
        \/ SharedKey(Len(directory.groups), LdapGroupKey))
    => pc = "failed"

\* C9: no key and no member of a snapshot is on the ignore lists of the
\* loader that returned it.
C9_IgnoredAbsent ==
    /\ pc \in {"fetch_freeipa", "start"} =>
        /\ DOMAIN idp_users \cap config.ldap_ignore_users = {}
        /\ DOMAIN idp_groups \cap config.ldap_ignore_groups = {}
        /\ \A g \in DOMAIN idp_groups :
               idp_groups[g].members \cap config.ldap_ignore_users = {}
    /\ pc = "start" =>
        /\ DOMAIN freeipa_users \cap config.freeipa_ignore_users = {}
        /\ DOMAIN freeipa_groups \cap config.freeipa_ignore_groups = {}
        /\ \A g \in DOMAIN freeipa_groups :
               freeipa_groups[g].members \cap config.freeipa_ignore_users = {}

\* ------------------------------------------------------------ failed calls
\* A step in which a client.* call was sent.
CallIssued == Len(calls') = Len(calls) + 1
TargetUnchanged == tgt_users' = tgt_users /\ tgt_groups' = tgt_groups
\* The server performs every request it accepts, and every accepted request
\* changes an entry: a call that left the server as it was is a failed call.
CallFailed == CallIssued /\ TargetUnchanged

\* C11: a failed call on the target stops the run: the step of the failed
\* call leaves sync() in its failed state with the snapshots, the server and
\* the lists as they were, a call that was performed never stops the run,
\* and from the failed state no further call is sent and nothing changes.
C11_FailureStopsRun ==
    /\ [][CallFailed => /\ pc' = "failed"
                         /\ UNCHANGED <<snapshots, todo, cur, madd, mrem>>]_vars
    /\ [][(CallIssued /\ ~TargetUnchanged) => pc' = pc /\ pc # "failed"]_vars
    /\ [][pc = "failed" => UNCHANGED vars]_vars
    /\ [](pc = "failed" => ~dry_run /\ calls # <<>>)

\* A run failed on a call about a group after it had added a user, with
\* groups still to handle: the added user is still on the server.
C11_Witness ==
    /\ pc = "failed"
    /\ calls[Len(calls)].op \in {"group_add", "group_add_member", "group_mod"}
    /\ \E c \in Issued("freeipa_user_add", "user_add") :
           c.a \in DOMAIN tgt_users /\ c.a \notin DOMAIN freeipa_users
    /\ Cardinality(todo) >= 1

\* ------------------------------------------------------- membership adds
\* A step in which a group_add_member call was sent, and the user it names.
MemberAddIssued ==
    CallIssued /\ calls'[Len(calls')].op = "group_add_member"
MemberAdded == calls'[Len(calls')].o.o_user
CalledBefore(op, a) ==
    \E i \in 1..Len(calls) : calls[i].op = op /\ calls[i].a = a

\* C12: when a group_add_member call is sent, by freeipa_group_add or by
\* freeipa_group_mod, the user it names is on the server: the user was there
\* when the run began and no user_del was sent for it, or a user_add for it
\* was sent before; and no user_add is ever sent after a group_add.
C12_MemberExists ==
    /\ [][MemberAddIssued =>
             /\ MemberAdded \in DOMAIN tgt_users
             /\ \/ /\ MemberAdded \in DOMAIN freeipa_users
                   /\ ~CalledBefore("user_del", MemberAdded)
                \/ CalledBefore("user_add", MemberAdded)]_vars
    /\ [](\A i, j \in 1..Len(calls) :
             (calls[i].op = "group_add" /\ calls[j].op = "user_add") => j < i)

\* A user added in this run was then made a member of a group created in
\* this run and of a group modified in this run.
C12_Witness ==
    \E c \in Issued("freeipa_user_add", "user_add") :
        /\ c.a \notin DOMAIN freeipa_users
        /\ \E a \in Issued("freeipa_group_add", "group_add_member") :
               a.o.o_user = c.a /\ c.a \in tgt_groups[a.a].member_user
        /\ \E m \in Issued("freeipa_group_mod", "group_add_member") :
               m.o.o_user = c.a /\ c.a \in tgt_groups[m.a].member_user

====
